---- MODULE Spec2Model ----
(***************************************************************************)
(* State-machine model of the weakset crate.                               *)
(*                                                                         *)
(*   src/src/lib.rs    WeakSet<T> / WeakSetEntry<T>: the slot table        *)
(*   src/src/rcset.rs  RcSet<T> / Item<T>: the identity table              *)
(*                                                                         *)
(* Values are identified by the number of the insert call that stored      *)
(* them (1, 2, ...), so that two stored values are never confused.  Slot   *)
(* indices are 0-based as in the source; slot i is slots[i + 1].           *)
(* A panic ends the run: the action that panics records the reason in      *)
(* `panicked` and every action is disabled from then on.                   *)
(***************************************************************************)
EXTENDS Integers, Sequences, FiniteSets, Bags, TLC

\* ------------------------------------------------------------------ bounds
MaxInserts == 3
MaxHandles == 3
MaxSets == 2
MaxViews == 2
MaxOwned == 1
MaxLive == 4

VARIABLES
    \* --- slot table (lib.rs) ---
    slots,        \* WeakSetInner.slots : sequence of slots
    first_free,   \* WeakSetInner.first_free
    borrow_flag,  \* the RefCell's borrow state: 0 free, n > 0 shared, -1 exclusive
    nsets,        \* WeakSet values held by the user (clones of the same Rc)
    handles,      \* bag of live WeakSetEntry: [index, val]; val = value it was issued for
    views,        \* bag of outstanding Ref / RefMut: [h, mut]
    owned,        \* handles that were moved into stored values: set of [by, h],
                  \* the value `by` has the handle h as a field
    iter,         \* the iterator returned by iter(): [st, max_idx, idx]
    panicked,     \* NoPanic, or [reason, op, index] of the panic that ended the run
    next_val,     \* identity of the value the next insert stores
    pass,         \* history of the iteration pass, kept while an iterator exists:
                  \* [yielded, start, freed, clean]
    cr,           \* history: a clone directly followed by releases of that slot
    out,          \* what the last operation wrote to the formatter, if it was a
                  \* Debug render: [done, text]
    \* --- identity table (rcset.rs) ---
    heap,         \* the Rc allocations: address -> [strong, weak, val]
    map,          \* keys of the HashMap<*const T, Weak<T>>; the Weak stored under
                  \* key a refers to the allocation at a
    map_flag,     \* the RefCell's borrow state of the HashMap
    rc_nsets,     \* RcSet values held by the user
    items,        \* bag of live Item: the address its Rc points at
    rcs,          \* bag of live Rc<T> yielded by Iter: the address
    rc_iter,      \* the Iter returned by iter(): [st, rest]
    rc_panicked,  \* NoPanic, or the panic that ended the run
    rc_next,      \* identity of the value the next insert stores
    rc_pass,      \* history of the current pass [yielded, n, live0, plain], and
                  \* whether an iteration was ever started [iterated]
    rc_destroy    \* history: the last operation was an Item release that
                  \* destroyed the value at `addr`; `tracked` tells whether the
                  \* table had an entry for it when the destructor ran

slot_vars == <<slots, first_free, borrow_flag, nsets, handles, views, owned, iter,
               panicked, next_val, pass, cr, out>>
rc_vars == <<heap, map, map_flag, rc_nsets, items, rcs, rc_iter, rc_panicked,
             rc_next, rc_pass, rc_destroy>>
vars == <<slot_vars, rc_vars>>

\* ------------------------------------------------------------------ helpers
Min(S) == CHOOSE x \in S : \A y \in S : x <= y

Empty == [used |-> FALSE, val |-> 0, refcount |-> 0]
Used(v, n) == [used |-> TRUE, val |-> v, refcount |-> n]

Indices(sl) == 0 .. (Len(sl) - 1)
Slot(i) == slots[i + 1]

Handle(i, v) == [index |-> i, val |-> v]
One(x) == SetToBag({x})
HandlesAt(i) == {h \in BagToSet(handles) : h.index = i}
RECURSIVE SumCopies(_, _)
SumCopies(S, B) ==
    IF S = {} THEN 0
    ELSE LET x == CHOOSE y \in S : TRUE
         IN  CopiesIn(x, B) + SumCopies(S \ {x}, B)
\* number of live handles whose index is i
LiveCount(i) == SumCopies(HandlesAt(i), handles)
NHandles == BagCardinality(handles)
NViews == BagCardinality(views)
\* views obtained through handle h borrow h itself (`&self`), so h cannot be dropped
Pinned(h) == SumCopies({v \in BagToSet(views) : v.h = h}, views)

\* the copies of h the user holds: those not moved into a stored value
UserCopies(h) == CopiesIn(h, handles) - Cardinality({o \in owned : o.h = h})
\* a value without a handle field is inserted with NoHandle
NoHandle == [index |-> 0, val |-> 0]

MutViews == {v \in BagToSet(views) : v.mut}
SharedViews == {v \in BagToSet(views) : ~v.mut}

NoPanic == [reason |-> "none", op |-> "none", index |-> 0, shared |-> {}, excl |-> {}]
Idle == [phase |-> "idle", index |-> 0, val |-> 0, rc0 |-> 0]
NoPass == [yielded |-> <<>>, start |-> 0, freed |-> {}, clean |-> TRUE]
NoIter == [st |-> "none", max_idx |-> 0, idx |-> 0]
NoOut == [done |-> FALSE, text |-> <<>>]

\* ------------------------------------------------------------------ RefCell
\* RefCell::borrow_mut succeeds iff nothing is borrowed
try_borrow_mut(flag) == flag = 0
\* RefCell::borrow succeeds iff no exclusive borrow is outstanding
try_borrow(flag) == flag >= 0

\* ------------------------------------------------------------------ lib.rs
\* mutant: trusts the hint instead of looking for an Empty slot
insert_slot_idx_hint(sl, ff) == IF ff < Len(sl) THEN ff ELSE Len(sl)

\* insert, lines 97-109: the first Empty slot at an index >= first_free, else
\* the index of the slot that is pushed
insert_slot_idx(sl, ff) ==
    LET free == {i \in Indices(sl) : i >= ff /\ ~sl[i + 1].used}
    IN  IF free = {} THEN Len(sl) ELSE Min(free)

\* mutant: the new slot starts with two references
insert_rc2(sl, ff, val) ==
    LET slot_idx == insert_slot_idx(sl, ff)
        grown == IF slot_idx = Len(sl) THEN Append(sl, Empty) ELSE sl
    IN  [slots |-> [grown EXCEPT ![slot_idx + 1] = Used(val, 2)],
         first_free |-> slot_idx + 1,
         index |-> slot_idx]

\* insert, lines 94-116: the new body
insert(sl, ff, val) ==
    LET slot_idx == insert_slot_idx(sl, ff)
        grown == IF slot_idx = Len(sl) THEN Append(sl, Empty) ELSE sl
    IN  [slots |-> [grown EXCEPT ![slot_idx + 1] = Used(val, 1)],
         first_free |-> slot_idx + 1,
         index |-> slot_idx]

\* mutant: the new reference is not counted
make_entry_nobump(sl, index) ==
    IF ~sl[index + 1].used
    THEN [some |-> FALSE, slots |-> sl]
    ELSE [some |-> TRUE, slots |-> sl]

\* make_entry, lines 126-138
make_entry(sl, index) ==
    IF ~sl[index + 1].used
    THEN [some |-> FALSE, slots |-> sl]
    ELSE [some |-> TRUE,
          slots |-> [sl EXCEPT ![index + 1].refcount = @ + 1]]

\* mutant: the slot is freed while one reference is left
drop_entry_early(sl, ff, index) ==
    LET n == sl[index + 1].refcount - 1
        is_empty == n <= 1
    IN  IF is_empty
        THEN [slots |-> [sl EXCEPT ![index + 1] = Empty],
              first_free |-> IF index < ff THEN index ELSE ff]
        ELSE [slots |-> [sl EXCEPT ![index + 1].refcount = n],
              first_free |-> ff]

\* mutant: the hint is set to every emptied slot
drop_entry_rewind(sl, ff, index) ==
    LET n == sl[index + 1].refcount - 1
        is_empty == n = 0
    IN  IF is_empty
        THEN [slots |-> [sl EXCEPT ![index + 1] = Empty],
              first_free |-> index]
        ELSE [slots |-> [sl EXCEPT ![index + 1].refcount = n],
              first_free |-> ff]

\* mutant: the hint is left alone when a slot is emptied
drop_entry_norewind(sl, ff, index) ==
    LET n == sl[index + 1].refcount - 1
        is_empty == n = 0
    IN  IF is_empty
        THEN [slots |-> [sl EXCEPT ![index + 1] = Empty],
              first_free |-> ff]
        ELSE [slots |-> [sl EXCEPT ![index + 1].refcount = n],
              first_free |-> ff]

\* mutant: the slot keeps its value when the count reaches zero
drop_entry_keep(sl, ff, index) ==
    [slots |-> [sl EXCEPT ![index + 1].refcount = @ - 1],
     first_free |-> ff]

\* drop_entry, lines 141-161 (the slot is Used)
drop_entry(sl, ff, index) ==
    LET n == sl[index + 1].refcount - 1
        is_empty == n = 0
    IN  IF is_empty
        THEN [slots |-> [sl EXCEPT ![index + 1] = Empty],
              first_free |-> IF index < ff THEN index ELSE ff]
        ELSE [slots |-> [sl EXCEPT ![index + 1].refcount = n],
              first_free |-> ff]

\* mutant: the body goes when one other owner is left
release_inner_eager(sl, ff, strong) ==
    IF strong <= 2 THEN [slots |-> <<>>, first_free |-> 0]
    ELSE [slots |-> sl, first_free |-> ff]

\* inner: Rc<RefCell<WeakSetInner>>, lines 35-51: one of the `strong` owners
\* (every WeakSet, every handle's `set` field) is dropped; the body is
\* destroyed with the last one
release_inner(sl, ff, strong) ==
    IF strong = 1 THEN [slots |-> <<>>, first_free |-> 0]
    ELSE [slots |-> sl, first_free |-> ff]

\* WeakSetInner::slot / slot_mut, lines 58-69: Some(val) or None
None == 0
slot(sl, index) == IF sl[index + 1].used THEN sl[index + 1].val ELSE None

\* WeakSetEntry::borrow, lines 190-192: a shared borrow of the body, mapped to
\* the value of slot `index`
borrow(flag, sl, index) ==
    IF ~try_borrow(flag) THEN [err |-> "BorrowError", flag |-> flag]
    ELSE IF index \notin Indices(sl) THEN [err |-> "index_oob", flag |-> flag]
    ELSE IF slot(sl, index) = None THEN [err |-> "unwrap_none", flag |-> flag]
    ELSE [err |-> "none", flag |-> flag + 1]

\* mutant: takes a shared borrow of the body
borrow_mut_shared(flag, sl, index) ==
    IF ~try_borrow(flag) THEN [err |-> "BorrowError", flag |-> flag]
    ELSE IF index \notin Indices(sl) THEN [err |-> "index_oob", flag |-> flag]
    ELSE IF slot(sl, index) = None THEN [err |-> "unwrap_none", flag |-> flag]
    ELSE [err |-> "none", flag |-> flag + 1]

\* WeakSetEntry::borrow_mut, lines 195-197: an exclusive borrow of the body
borrow_mut(flag, sl, index) ==
    IF ~try_borrow_mut(flag) THEN [err |-> "BorrowMutError", flag |-> flag]
    ELSE IF index \notin Indices(sl) THEN [err |-> "index_oob", flag |-> flag]
    ELSE IF slot(sl, index) = None THEN [err |-> "unwrap_none", flag |-> flag]
    ELSE [err |-> "none", flag |-> -1]

\* mutant: the bound excludes the last slot
max_index_short(sl) == IF Len(sl) = 0 THEN 0 ELSE Len(sl) - 1

\* mutant: the bound is one past the array
max_index_long(sl) == Len(sl) + 1

\* iter, line 171: the highest possible slot
max_index(sl) == Len(sl)

\* iter, line 172: the first index in from .. max_idx - 1 at which make_entry
\* returns Some (or indexes out of bounds); max_idx when the range is exhausted
next_hit(sl, from, max_idx) ==
    LET hits == {i \in from .. (max_idx - 1) :
                    i \notin Indices(sl) \/ make_entry(sl, i).some}
    IN  IF hits = {} THEN max_idx ELSE Min(hits)

\* impl Debug for WeakSetSlot, lines 210-217: "empty" or "val(refcount)"
fmt_slot(s) ==
    IF ~s.used THEN [word |-> "empty", val |-> 0, refcount |-> 0]
    ELSE [word |-> "", val |-> s.val, refcount |-> s.refcount]

\* mutant: renders through iter(), so that every occupied slot is counted once
\* more by the handle made for it
fmt_iter(sl) ==
    LET seen == [i \in 1 .. Len(sl) |->
                   IF sl[i].used THEN [sl[i] EXCEPT !.refcount = @ + 1]
                   ELSE sl[i]]
    IN  [text |-> [i \in 1 .. Len(sl) |-> fmt_slot(seen[i])], slots |-> seen]

\* impl Debug for WeakSet, lines 205-206: the entries of inner.slots.iter(),
\* read through the shared borrow; `slots` is the body as the call leaves it
fmt(sl) ==
    [text |-> [i \in 1 .. Len(sl) |-> fmt_slot(sl[i])], slots |-> sl]

\* ------------------------------------------------------------------ actions
Running == panicked = NoPanic
\* An exhausted iterator borrows a WeakSet and does nothing else; it is dropped
\* before the next operation.
Ready == Running /\ iter.st # "done"

\* A panic ends the run.  What is left is the panic record: the reason, the
\* operation and index it was raised for, and the slots that shared and
\* exclusive views were outstanding on; the body, the handles, the views and
\* the iterator are gone with the run.
Panic(reason, op, index) ==
    /\ panicked' = [reason |-> reason, op |-> op, index |-> index,
                    shared |-> {v.h.index : v \in SharedViews},
                    excl |-> {v.h.index : v \in MutViews}]
    /\ slots' = <<>>
    /\ first_free' = 0
    /\ borrow_flag' = 0
    /\ nsets' = 0
    /\ handles' = EmptyBag
    /\ views' = EmptyBag
    /\ owned' = {}
    /\ iter' = NoIter
    /\ next_val' = 1
    /\ pass' = NoPass
    /\ cr' = Idle
    /\ out' = NoOut

SlotInit ==
    /\ slots = <<>>
    /\ first_free = 0
    /\ borrow_flag = 0
    /\ nsets = 1
    /\ handles = EmptyBag
    /\ views = EmptyBag
    /\ owned = {}
    /\ iter = NoIter
    /\ panicked = NoPanic
    /\ next_val = 1
    /\ pass = NoPass
    /\ cr = Idle
    /\ out = NoOut

\* Rc::strong_count(&inner): the WeakSets and the handles
inner_strong == nsets + NHandles

\* the handles the stored value v has as fields
fields(v) == {o.h : o \in {p \in owned : p.by = v}}

\* a WeakSet the live iterator does not borrow
FreeSets == nsets - (IF iter.st = "none" THEN 0 ELSE 1)

\* impl Clone for WeakSet
CloneSet ==
    /\ UNCHANGED rc_vars
    /\ Ready /\ nsets >= 1 /\ nsets < MaxSets
    /\ nsets' = nsets + 1
    /\ cr' = Idle
    /\ out' = NoOut
    /\ UNCHANGED <<slots, first_free, borrow_flag, handles, views, iter,
                   owned, panicked, next_val, pass>>

\* a WeakSet goes out of scope
DropSet ==
    /\ UNCHANGED rc_vars
    /\ Ready /\ FreeSets >= 1
    /\ nsets' = nsets - 1
    /\ LET r == release_inner(slots, first_free, inner_strong)
       IN  slots' = r.slots /\ first_free' = r.first_free
    /\ cr' = Idle
    /\ out' = NoOut
    /\ UNCHANGED <<borrow_flag, handles, views, iter, owned, panicked, next_val, pass>>

\* WeakSet::insert(&mut self, val); the value may have a handle of this
\* collection as a field: `own` is moved into it
Insert(own) ==
    /\ UNCHANGED rc_vars
    /\ Ready /\ FreeSets >= 1
    /\ next_val <= MaxInserts /\ NHandles < MaxHandles
    /\ own # NoHandle =>
          (Cardinality(owned) < MaxOwned /\ UserCopies(own) > Pinned(own))
    /\ IF ~try_borrow_mut(borrow_flag)
       THEN Panic("BorrowMutError", "insert", 0)
       ELSE LET r == insert(slots, first_free, next_val)
            IN  /\ slots' = r.slots
                /\ first_free' = r.first_free
                /\ handles' = handles (+) One(Handle(r.index, next_val))
                /\ next_val' = next_val + 1
                /\ owned' = IF own = NoHandle THEN owned
                            ELSE owned \cup {[by |-> next_val, h |-> own]}
                /\ pass' = IF iter.st = "none" THEN pass
                           ELSE [pass EXCEPT !.clean = FALSE]
                /\ cr' = Idle
                /\ out' = NoOut
                /\ UNCHANGED <<borrow_flag, nsets, views, iter, panicked>>

\* impl Clone for WeakSetEntry
Clone(h) ==
    /\ UNCHANGED rc_vars
    /\ Ready /\ NHandles < MaxHandles /\ UserCopies(h) >= 1
    /\ IF ~try_borrow_mut(borrow_flag)
       THEN Panic("BorrowMutError", "clone", h.index)
       ELSE IF h.index \notin Indices(slots)
       THEN Panic("index_oob", "clone", h.index)
       ELSE LET r == make_entry(slots, h.index)
            IN  IF ~r.some
                THEN Panic("unwrap_none", "clone", h.index)
                ELSE /\ slots' = r.slots
                     /\ handles' = handles (+) One(Handle(h.index, h.val))
                     /\ pass' = IF iter.st = "none" THEN pass
                                ELSE [pass EXCEPT !.clean = FALSE]
                     /\ cr' = [phase |-> "cloned", index |-> h.index,
                               val |-> Slot(h.index).val,
                               rc0 |-> Slot(h.index).refcount]
                     /\ out' = NoOut
                     /\ UNCHANGED <<first_free, borrow_flag, nsets, views, iter,
                                    owned, panicked, next_val>>

\* impl Drop for WeakSetEntry
Drop(h) ==
    /\ UNCHANGED rc_vars
    /\ Ready /\ UserCopies(h) > Pinned(h)
    /\ IF ~try_borrow_mut(borrow_flag)
       THEN Panic("BorrowMutError", "drop", h.index)
       ELSE IF h.index \notin Indices(slots)
       THEN Panic("index_oob", "drop", h.index)
       ELSE IF ~Slot(h.index).used
       THEN Panic("unreachable", "drop", h.index)
       ELSE IF Slot(h.index).refcount = 1 /\ fields(Slot(h.index).val) # {}
       THEN \* line 156 drops the value while `inner` (line 142) is still
            \* borrowed; the drop of the value's handle field gets to line 142
            Panic("BorrowMutError", "drop_nested",
                  (CHOOSE g \in fields(Slot(h.index).val) : TRUE).index)
       ELSE LET d == drop_entry(slots, first_free, h.index)
                \* then the handle's `set` field is dropped
                r == release_inner(d.slots, d.first_free, inner_strong)
                last == LiveCount(h.index) = 1
                inpass == iter.st = "active" /\ h.index < iter.max_idx
                unvisited == inpass /\ h.index >= iter.idx
            IN  /\ handles' = handles (-) One(h)
                /\ slots' = r.slots
                /\ first_free' = r.first_free
                /\ pass' = IF iter.st = "none" THEN pass ELSE
                           [pass EXCEPT
                              !.clean = FALSE,
                              !.freed = IF last /\ unvisited
                                        THEN @ \cup {Handle(h.index, Slot(h.index).val)}
                                        ELSE @]
                /\ cr' = IF cr.index = h.index /\ cr.phase = "cloned"
                         THEN [cr EXCEPT !.phase = "one"]
                         ELSE IF cr.index = h.index /\ cr.phase = "one"
                         THEN [cr EXCEPT !.phase = "both"]
                         ELSE Idle
                /\ out' = NoOut
                /\ UNCHANGED <<borrow_flag, nsets, views, iter, owned, panicked, next_val>>

\* WeakSetEntry::borrow(&self) -> Ref<T>
Borrow(h) ==
    /\ UNCHANGED rc_vars
    /\ Ready /\ UserCopies(h) >= 1
    /\ LET r == borrow(borrow_flag, slots, h.index)
       IN  IF r.err # "none"
           THEN Panic(r.err, "borrow", h.index)
           ELSE /\ NViews < MaxViews
                /\ borrow_flag' = r.flag
                /\ views' = views (+) One([h |-> h, mut |-> FALSE])
                /\ cr' = Idle
                /\ out' = NoOut
                /\ UNCHANGED <<slots, first_free, nsets, handles, iter,
                               owned, panicked, next_val, pass>>

\* WeakSetEntry::borrow_mut(&self) -> RefMut<T>
BorrowMut(h) ==
    /\ UNCHANGED rc_vars
    /\ Ready /\ UserCopies(h) >= 1
    /\ LET r == borrow_mut(borrow_flag, slots, h.index)
       IN  IF r.err # "none"
           THEN Panic(r.err, "borrow_mut", h.index)
           ELSE /\ NViews < MaxViews
                /\ borrow_flag' = r.flag
                /\ views' = views (+) One([h |-> h, mut |-> TRUE])
                /\ cr' = Idle
                /\ out' = NoOut
                /\ UNCHANGED <<slots, first_free, nsets, handles, iter,
                               owned, panicked, next_val, pass>>

\* a Ref / RefMut goes out of scope
ReleaseView(v) ==
    /\ UNCHANGED rc_vars
    /\ Ready
    /\ views' = views (-) One(v)
    /\ borrow_flag' = IF v.mut THEN borrow_flag + 1 ELSE borrow_flag - 1
    /\ cr' = Idle
    /\ out' = NoOut
    /\ UNCHANGED <<slots, first_free, nsets, handles, iter, owned, panicked, next_val,
                   pass>>

\* format!("{:?}", set): the shared borrow is released when fmt returns
Fmt ==
    /\ UNCHANGED rc_vars
    /\ Ready /\ nsets >= 1
    /\ IF ~try_borrow(borrow_flag)
       THEN Panic("BorrowError", "fmt", 0)
       ELSE LET r == fmt(slots)
            IN  /\ out' = [done |-> TRUE, text |-> r.text]
                /\ slots' = r.slots
                /\ cr' = Idle
                /\ UNCHANGED <<first_free, borrow_flag, nsets, handles, views,
                               iter, owned, panicked, next_val, pass>>

\* WeakSet::iter(&self): captures slots.len()
IterStart ==
    /\ UNCHANGED rc_vars
    /\ Ready /\ nsets >= 1 /\ iter.st = "none" /\ NHandles <= MaxHandles
    /\ IF ~try_borrow(borrow_flag)
       THEN Panic("BorrowError", "iter", 0)
       ELSE /\ iter' = [st |-> "active", max_idx |-> max_index(slots), idx |-> 0]
            /\ pass' = [NoPass EXCEPT !.start = next_val]
            /\ cr' = Idle
            /\ out' = NoOut
            /\ UNCHANGED <<slots, first_free, borrow_flag, nsets, handles,
                           views, owned, panicked, next_val>>

\* one call of next() on the iterator: (0 .. max_idx).filter_map(make_entry)
IterNext ==
    /\ UNCHANGED rc_vars
    /\ Running /\ iter.st = "active"
    /\ LET hit == next_hit(slots, iter.idx, iter.max_idx)
       IN  IF iter.idx >= iter.max_idx
           THEN /\ iter' = [iter EXCEPT !.st = "done"]
                /\ cr' = Idle
                /\ out' = NoOut
                /\ UNCHANGED <<slots, first_free, borrow_flag, nsets, handles,
                               views, owned, panicked, next_val, pass>>
           ELSE IF ~try_borrow_mut(borrow_flag)
           THEN Panic("BorrowMutError", "next", iter.idx)
           ELSE IF hit = iter.max_idx
           THEN /\ iter' = [iter EXCEPT !.st = "done", !.idx = iter.max_idx]
                /\ cr' = Idle
                /\ out' = NoOut
                /\ UNCHANGED <<slots, first_free, borrow_flag, nsets, handles,
                               views, owned, panicked, next_val, pass>>
           ELSE IF hit \notin Indices(slots)
           THEN Panic("index_oob", "next", hit)
           ELSE /\ NHandles < MaxLive
                /\ slots' = make_entry(slots, hit).slots
                /\ handles' = handles (+) One(Handle(hit, Slot(hit).val))
                /\ iter' = [iter EXCEPT !.idx = hit + 1]
                /\ pass' = [pass EXCEPT
                              !.yielded = Append(@, Handle(hit, Slot(hit).val))]
                /\ cr' = Idle
                /\ out' = NoOut
                /\ UNCHANGED <<first_free, borrow_flag, nsets, views, owned, panicked,
                               next_val>>

\* the iterator goes out of scope
IterDrop ==
    /\ UNCHANGED rc_vars
    /\ Running /\ iter.st # "none"
    /\ iter' = NoIter
    /\ pass' = NoPass
    /\ cr' = Idle
    /\ out' = NoOut
    /\ UNCHANGED <<slots, first_free, borrow_flag, nsets, handles, views,
                   owned, panicked, next_val>>

\* ------------------------------------------------------------------ rcset.rs
Addrs == 1 .. MaxInserts
FreeBox == [strong |-> 0, weak |-> 0, val |-> 0, ever |-> FALSE]
\* memory the allocator may hand out: no strong and no weak reference is left.
\* Any freed address may be handed out again; the addresses never handed out
\* are interchangeable, so the lowest stands for them.
FreeAddrs(hp) ==
    LET free == {a \in Addrs : hp[a].strong = 0 /\ hp[a].weak = 0}
        fresh == {a \in free : ~hp[a].ever}
    IN  {a \in free : hp[a].ever \/ a = Min(fresh)}
\* dropping one strong reference; the value is destroyed with the last one
rc_drop(hp, a) ==
    [hp EXCEPT ![a].strong = @ - 1,
               ![a].val = IF hp[a].strong = 1 THEN 0 ELSE @]
\* Weak::upgrade succeeds iff a strong reference is left
upgrade(hp, a) == hp[a].strong > 0

\* RcSet::insert, lines 20-27: allocate at a, track a
rc_insert(hp, m, a, val) ==
    [heap |-> [hp EXCEPT ![a] = [strong |-> 1,
                                  weak |-> IF a \in m THEN hp[a].weak ELSE 1,
                                  val |-> val,
                                  ever |-> TRUE]],
     map |-> m \cup {a}]

\* mutant: the entry is removed while another strong reference is left
drop_item_early(hp, m, flag, a) ==
    LET refcount == hp[a].strong
    IN  IF refcount <= 2
        THEN LET dropped == rc_drop(hp, a)
             IN  IF ~try_borrow_mut(flag)
                 THEN [err |-> "BorrowMutError", heap |-> dropped, map |-> m,
                       destroyed |-> hp[a].strong = 1, tracked |-> a \in m]
                 ELSE [err |-> "none",
                       heap |-> IF a \in m
                                THEN [dropped EXCEPT ![a].weak = @ - 1]
                                ELSE dropped,
                       map |-> m \ {a},
                       destroyed |-> hp[a].strong = 1, tracked |-> a \in m]
        ELSE [err |-> "none", heap |-> rc_drop(hp, a), map |-> m,
              destroyed |-> FALSE, tracked |-> FALSE]

\* RcSet::drop_item, lines 46-57
drop_item(hp, m, flag, a) ==
    LET refcount == hp[a].strong
    IN  IF refcount <= 1
        THEN \* line 52: the Rc is dropped first, and the value destroyed while
             \* the table is as it was (`tracked`); line 55: then the entry is
             \* removed
             LET dropped == rc_drop(hp, a)
             IN  IF ~try_borrow_mut(flag)
                 THEN [err |-> "BorrowMutError", heap |-> dropped, map |-> m,
                       destroyed |-> TRUE, tracked |-> a \in m]
                 ELSE [err |-> "none",
                       heap |-> IF a \in m
                                THEN [dropped EXCEPT ![a].weak = @ - 1]
                                ELSE dropped,
                       map |-> m \ {a},
                       destroyed |-> TRUE, tracked |-> a \in m]
        ELSE \* `item` goes out of scope at the end of the function
             [err |-> "none", heap |-> rc_drop(hp, a), map |-> m,
              destroyed |-> FALSE, tracked |-> FALSE]

\* mutant: the clone takes the entry out of the table
item_clone_untrack(hp, m, a) ==
    [heap |-> [hp EXCEPT ![a].strong = @ + 1,
                         ![a].weak = IF a \in m THEN @ - 1 ELSE @],
     map |-> m \ {a}]

\* #[derive(Clone)] for Item, lines 81-85: Rc::clone of `rc` and RcSet::clone
\* of `set`; the HashMap is not touched
item_clone(hp, m, a) ==
    [heap |-> [hp EXCEPT ![a].strong = @ + 1], map |-> m]

NoRcIter == [st |-> "none", rest |-> {}]
NoRcPass == [yielded |-> {}, n |-> 0, live0 |-> {}, plain |-> FALSE]
NoDestroy == [done |-> FALSE, addr |-> 0, tracked |-> FALSE]
NoRcPanic == [reason |-> "none", op |-> "none", index |-> 0]
RcRunning == rc_panicked = NoRcPanic
\* A panic ends the run; what is left is the panic record.
RcPanic(reason, op, a) ==
    /\ rc_panicked' = [reason |-> reason, op |-> op, index |-> a]
    /\ heap' = [b \in Addrs |-> FreeBox]
    /\ map' = {}
    /\ map_flag' = 0
    /\ rc_nsets' = 0
    /\ items' = EmptyBag
    /\ rcs' = EmptyBag
    /\ rc_iter' = NoRcIter
    /\ rc_next' = 1
    /\ rc_pass' = [pass |-> NoRcPass, iterated |-> FALSE]
    /\ rc_destroy' = NoDestroy
NRefs == BagCardinality(items) + BagCardinality(rcs)
LiveItems == BagToSet(items)

RcInit ==
    /\ heap = [a \in Addrs |-> FreeBox]
    /\ map = {}
    /\ map_flag = 0
    /\ rc_nsets = 1
    /\ items = EmptyBag
    /\ rcs = EmptyBag
    /\ rc_iter = NoRcIter
    /\ rc_panicked = NoRcPanic
    /\ rc_next = 1
    /\ rc_pass = [pass |-> NoRcPass, iterated |-> FALSE]
    /\ rc_destroy = NoDestroy

\* an RcSet the live Iter does not borrow
RcFreeSets == rc_nsets - (IF rc_iter.st = "none" THEN 0 ELSE 1)

\* impl Clone for RcSet
RcCloneSet ==
    /\ UNCHANGED slot_vars
    /\ rc_destroy' = NoDestroy
    /\ RcRunning /\ rc_nsets >= 1 /\ rc_nsets < MaxSets
    /\ rc_nsets' = rc_nsets + 1
    /\ UNCHANGED <<heap, map, map_flag, items, rcs, rc_iter, rc_panicked,
                   rc_next, rc_pass>>

\* an RcSet goes out of scope; the HashMap is destroyed with its last owner
RcDropSet ==
    /\ UNCHANGED slot_vars
    /\ rc_destroy' = NoDestroy
    /\ RcRunning /\ RcFreeSets >= 1
    /\ rc_nsets' = rc_nsets - 1
    /\ IF rc_nsets = 1 /\ items = EmptyBag
       THEN /\ map' = {}
            /\ heap' = [a \in Addrs |->
                          IF a \in map THEN [heap[a] EXCEPT !.weak = @ - 1]
                          ELSE heap[a]]
       ELSE UNCHANGED <<map, heap>>
    /\ UNCHANGED <<map_flag, items, rcs, rc_iter, rc_panicked, rc_next, rc_pass>>

\* RcSet::insert(&mut self, item)
RcInsert(a) ==
    /\ UNCHANGED slot_vars
    /\ RcRunning /\ RcFreeSets >= 1
    /\ rc_next <= MaxInserts /\ NRefs < MaxHandles
    /\ a \in FreeAddrs(heap)
    /\ IF ~try_borrow_mut(map_flag)
       THEN RcPanic("BorrowMutError", "insert", a)
       ELSE LET r == rc_insert(heap, map, a, rc_next)
            IN  /\ heap' = r.heap
                /\ map' = r.map
                /\ items' = items (+) One(a)
                /\ rc_next' = rc_next + 1
                /\ rc_destroy' = NoDestroy
                /\ UNCHANGED <<map_flag, rc_nsets, rcs, rc_iter, rc_panicked,
                               rc_pass>>

\* #[derive(Clone)] for Item: Rc::clone
ItemClone(a) ==
    /\ UNCHANGED slot_vars
    /\ RcRunning /\ NRefs < MaxHandles
    /\ LET r == item_clone(heap, map, a)
       IN  heap' = r.heap /\ map' = r.map
    /\ items' = items (+) One(a)
    /\ rc_destroy' = NoDestroy
    /\ UNCHANGED <<map_flag, rc_nsets, rcs, rc_iter, rc_panicked, rc_next,
                   rc_pass>>

\* impl Drop for Item
ItemDrop(a) ==
    /\ UNCHANGED slot_vars
    /\ RcRunning
    /\ LET r == drop_item(heap, map, map_flag, a)
           \* the Item's `set` field is dropped last: the HashMap goes with
           \* its last owner
           last_owner == rc_nsets = 0 /\ BagCardinality(items) = 1
       IN  IF r.err # "none"
           THEN RcPanic(r.err, "drop", a)
           ELSE /\ items' = items (-) One(a)
                /\ heap' = IF last_owner
                           THEN [b \in Addrs |->
                                   IF b \in r.map
                                   THEN [r.heap[b] EXCEPT !.weak = @ - 1]
                                   ELSE r.heap[b]]
                           ELSE r.heap
                /\ map' = IF last_owner THEN {} ELSE r.map
                /\ rc_destroy' = IF r.destroyed
                                 THEN [done |-> TRUE, addr |-> a,
                                       tracked |-> r.tracked]
                                 ELSE NoDestroy
                /\ UNCHANGED <<map_flag, rc_nsets, rcs, rc_iter, rc_panicked,
                               rc_next, rc_pass>>

\* an Rc<T> yielded by Iter goes out of scope
RcDrop(a) ==
    /\ UNCHANGED slot_vars
    /\ rc_destroy' = NoDestroy
    /\ RcRunning
    /\ rcs' = rcs (-) One(a)
    /\ heap' = rc_drop(heap, a)
    /\ UNCHANGED <<map, map_flag, rc_nsets, items, rc_iter, rc_panicked, rc_next,
                   rc_pass>>

\* RcSet::iter(&self): borrows the HashMap for the life of the Iter
RcIterStart ==
    /\ UNCHANGED slot_vars
    /\ RcRunning /\ rc_nsets >= 1 /\ rc_iter.st = "none"
    /\ NRefs <= MaxHandles
    /\ IF ~try_borrow(map_flag)
       THEN RcPanic("BorrowError", "iter", 0)
       ELSE /\ map_flag' = map_flag + 1
            /\ rc_iter' = [st |-> "active", rest |-> map]
            /\ rc_pass' = [pass |-> [yielded |-> {}, n |-> 0,
                                     live0 |-> {heap[a].val : a \in LiveItems},
                                     plain |-> ~rc_pass.iterated],
                           iterated |-> TRUE]
            /\ rc_destroy' = NoDestroy
            /\ UNCHANGED <<heap, map, rc_nsets, items, rcs, rc_panicked, rc_next>>

\* Iter::next, lines 71-78, returning Some(rc): the table's values come in an
\* unspecified order; expired ones met before a live one are skipped
RcIterYield(a, skipped) ==
    /\ UNCHANGED slot_vars
    /\ rc_destroy' = NoDestroy
    /\ RcRunning /\ rc_iter.st = "active"
    /\ a \in rc_iter.rest /\ upgrade(heap, a)
    /\ skipped \subseteq {b \in rc_iter.rest : ~upgrade(heap, b)}
    /\ heap' = [heap EXCEPT ![a].strong = @ + 1]
    /\ rcs' = rcs (+) One(a)
    /\ rc_iter' = [rc_iter EXCEPT !.rest = @ \ (skipped \cup {a})]
    /\ rc_pass' = [rc_pass EXCEPT !.pass.yielded = @ \cup {heap[a].val},
                                  !.pass.n = @ + 1]
    /\ UNCHANGED <<map, map_flag, rc_nsets, items, rc_panicked, rc_next>>

\* Iter::next returning None: every remaining value is expired
RcIterEnd ==
    /\ UNCHANGED slot_vars
    /\ rc_destroy' = NoDestroy
    /\ RcRunning /\ rc_iter.st = "active"
    /\ \A b \in rc_iter.rest : ~upgrade(heap, b)
    /\ rc_iter' = [st |-> "done", rest |-> {}]
    /\ UNCHANGED <<heap, map, map_flag, rc_nsets, items, rcs, rc_panicked,
                   rc_next, rc_pass>>

\* the Iter goes out of scope and releases its Ref
RcIterDrop ==
    /\ UNCHANGED slot_vars
    /\ rc_destroy' = NoDestroy
    /\ RcRunning /\ rc_iter.st # "none"
    /\ rc_iter' = NoRcIter
    /\ map_flag' = map_flag - 1
    /\ rc_pass' = [rc_pass EXCEPT !.pass = NoRcPass]
    /\ UNCHANGED <<heap, map, rc_nsets, items, rcs, rc_panicked, rc_next>>

\* ------------------------------------------------------------------ specifications
Init == SlotInit /\ RcInit

Next ==
    \/ CloneSet
    \/ DropSet
    \/ \E own \in {NoHandle} \cup BagToSet(handles) : Insert(own)
    \/ \E h \in BagToSet(handles) : Clone(h)
    \/ \E h \in BagToSet(handles) : Drop(h)
    \/ \E h \in BagToSet(handles) : Borrow(h)
    \/ \E h \in BagToSet(handles) : BorrowMut(h)
    \/ \E v \in BagToSet(views) : ReleaseView(v)
    \/ Fmt
    \/ IterStart
    \/ IterNext
    \/ IterDrop

\* the slot table
Spec == Init /\ [][Next]_vars

RcStep ==
    \/ RcCloneSet
    \/ RcDropSet
    \/ \E a \in Addrs : RcInsert(a)
    \/ \E a \in BagToSet(items) : ItemClone(a)
    \/ \E a \in BagToSet(items) : ItemDrop(a)
    \/ \E a \in BagToSet(rcs) : RcDrop(a)
    \/ RcIterStart
    \/ \E a \in rc_iter.rest : \E skipped \in SUBSET (rc_iter.rest \ {a}) :
          RcIterYield(a, skipped)
    \/ RcIterEnd
    \/ RcIterDrop

\* the identity table
RcSpec == Init /\ [][RcStep]_vars

\* ------------------------------------------------------------------ claims
Yielded == {pass.yielded[k] : k \in 1 .. Len(pass.yielded)}
UsedIndices == {i \in Indices(slots) : Slot(i).used}

\* C1: while the program runs, every slot with n > 0 live handles is
\* Used(_, n) and every slot without a live handle is Empty; every live handle
\* points into the slot array.
C1_RefcountInv ==
    Running =>
        /\ \A h \in BagToSet(handles) : h.index \in Indices(slots)
        /\ \A i \in Indices(slots) :
              IF LiveCount(i) = 0
              THEN ~Slot(i).used
              ELSE Slot(i).used /\ Slot(i).refcount = LiveCount(i)
                   /\ Slot(i).refcount >= 1

\* C1 witness: a slot shared by two handles beside an emptied slot, after an
\* iteration step has issued a handle
C1_Witness ==
    /\ Running
    /\ \E i, j \in Indices(slots) : Slot(i).refcount >= 2 /\ ~Slot(j).used
    /\ Len(pass.yielded) >= 1

\* C2: a complete iteration pass with no other operation interleaved yields
\* exactly one handle per occupied slot: as many items as there are slots with
\* a live handle.
C2_CompletePass ==
    (iter.st = "done" /\ pass.clean) =>
        /\ Yielded = {Handle(i, Slot(i).val) : i \in UsedIndices}
        /\ Len(pass.yielded) = Cardinality(UsedIndices)
        /\ Len(pass.yielded)
             = Cardinality({i \in Indices(slots) : LiveCount(i) > 0})

\* C2 witness: a complete undisturbed pass over two values and an emptied slot
C2_Witness ==
    /\ iter.st = "done" /\ pass.clean
    /\ Len(pass.yielded) = 2
    /\ \E j \in Indices(slots) : ~Slot(j).used

\* C3: before any iteration was started the table holds exactly the addresses
\* with a live Item, and the first complete pass yields each value that had a
\* live Item when the pass started exactly once.
C3_RcCompletePass ==
    /\ (RcRunning /\ ~rc_pass.iterated) => map = LiveItems
    /\ (rc_iter.st = "done" /\ rc_pass.pass.plain) =>
          /\ rc_pass.pass.yielded = rc_pass.pass.live0
          /\ rc_pass.pass.n = Cardinality(rc_pass.pass.live0)

\* C3 witness: after three inserts, a clone and releases, a complete pass
\* yielded the two values that still had an Item
C3_Witness ==
    /\ rc_iter.st = "done" /\ rc_pass.pass.plain
    /\ rc_pass.pass.n = 2
    /\ rc_next = 4

\* C4: every live handle finds, at its index, the value it was issued for, and
\* the slot the next insert would write is not one a live handle points at.
C4_NoAlias ==
    Running =>
        /\ \A h \in BagToSet(handles) :
              /\ h.index \in Indices(slots)
              /\ Slot(h.index).used
              /\ Slot(h.index).val = h.val
        /\ LET i == insert(slots, first_free, next_val).index
           IN  i \in Indices(slots) => (~Slot(i).used /\ LiveCount(i) = 0)

\* C4 witness: slot 0 was recycled for a later value while another handle lives
C4_Witness ==
    /\ Running
    /\ \E h, g \in BagToSet(handles) :
          h.index = 0 /\ h.val >= 2 /\ g.index # 0

\* C5 (as claimed): the in-flight iteration yields no value inserted after it
\* was started.
C5_SnapshotExcludesInserts ==
    \A y \in Yielded : y.val < pass.start

\* C6: releases between iteration steps are tolerated: a release or an
\* iteration step fails only on an outstanding view; a value whose last handle
\* was released before its slot was visited is not yielded, and its slot is
\* skipped unless an insert during the pass refilled it; a yielded value whose
\* handle is still held stays stored at its index.
C6_ReleaseDuringPass ==
    /\ (panicked.op \in {"drop", "next"}) =>
          (panicked.reason = "BorrowMutError"
           /\ panicked.shared \cup panicked.excl # {})
    /\ \A y \in Yielded : \A f \in pass.freed :
          /\ y.val # f.val
          /\ next_val = pass.start => y.index # f.index
    /\ Running =>
          \A y \in Yielded :
              BagIn(y, handles) => Slot(y.index) = Used(y.val, LiveCount(y.index))

\* C6 witness: a finished pass during which an unvisited value was released
\* and the handles of a yielded value were released
C6_Witness ==
    /\ Running /\ iter.st = "done"
    /\ pass.freed # {}
    /\ \E y \in Yielded : ~BagIn(y, handles)

\* C7: after clone and one release the slot holds the same value with the
\* count it had before the clone, and an iteration step would yield it; after
\* the second release of a slot that had one handle the slot is Empty and is
\* not yielded (as long as the body has an owner left).
C7_CloneRelease ==
    Running =>
        /\ cr.phase = "one" =>
              /\ Slot(cr.index) = Used(cr.val, cr.rc0)
              /\ BagIn(Handle(cr.index, cr.val), handles)
              /\ make_entry(slots, cr.index).some
        /\ (cr.phase = "both" /\ cr.rc0 = 1 /\ inner_strong > 0) =>
              /\ Slot(cr.index) = Empty
              /\ LiveCount(cr.index) = 0
              /\ ~make_entry(slots, cr.index).some

\* C7 witness: both handles of a clone pair were released
C7_Witness == Running /\ cr.phase = "both" /\ cr.rc0 = 1 /\ inner_strong > 0

\* C8 (as claimed): clone of a valid handle never fails.
C8_CloneSucceeds == panicked.op # "clone"

\* C9: the outstanding views are shared views only or one exclusive view; a
\* borrow fails only against an exclusive view and a borrow_mut only against
\* an outstanding view, and then the run is aborted.
C9_BorrowDiscipline ==
    /\ \/ MutViews = {}
       \/ SharedViews = {} /\ BagCardinality(views) = 1
    /\ panicked.op = "borrow" =>
          (panicked.reason = "BorrowError" /\ panicked.excl # {})
    /\ panicked.op = "borrow_mut" =>
          (panicked.reason = "BorrowMutError"
           /\ panicked.shared \cup panicked.excl # {})

\* C9 witness: two shared views are out and a borrow_mut through a handle of
\* another slot was aborted
C9_Witness ==
    /\ panicked.reason = "BorrowMutError" /\ panicked.op = "borrow_mut"
    /\ Cardinality(panicked.shared) = 2
    /\ panicked.index \notin panicked.shared

\* C10: no operation on a live handle finds its slot Empty or out of range.
C10_NeverEmpty ==
    panicked.reason \notin {"unreachable", "unwrap_none", "index_oob"}

\* C10 witness: a recycled slot is shared by a cloned handle, borrowed, and an
\* iteration has issued a handle
C10_Witness ==
    /\ Running
    /\ \E h \in BagToSet(handles) :
          h.index = 0 /\ h.val >= 2 /\ CopiesIn(h, handles) >= 2
    /\ views # EmptyBag
    /\ Len(pass.yielded) >= 1

\* C11: a Debug render changes no slot, no refcount and not the hint, and
\* issues no handle: the body, the handles, the views and a running iteration
\* are as before the render, and the text shows each slot with the number of
\* handles that were live before it.
C11_RenderFrame ==
    [][out'.done =>
          /\ slots' = slots
          /\ first_free' = first_free
          /\ handles' = handles
          /\ <<borrow_flag', views', iter', nsets', next_val', pass'>>
                = <<borrow_flag, views, iter, nsets, next_val, pass>>
          /\ Len(out'.text) = Len(slots)
          /\ \A i \in Indices(slots) :
                out'.text[i + 1] =
                    IF LiveCount(i) = 0
                    THEN [word |-> "empty", val |-> 0, refcount |-> 0]
                    ELSE [word |-> "", val |-> Slot(i).val,
                          refcount |-> LiveCount(i)]]_vars

\* C11 witness: a render, during a running iteration, of a body with a shared
\* slot and an emptied slot
C11_Witness ==
    /\ out.done
    /\ iter.st = "active"
    /\ \E i, j \in Indices(slots) : Slot(i).refcount >= 2 /\ ~Slot(j).used

\* C12: after every WeakSet was dropped the handles keep the body: each live
\* handle finds its value, can be cloned, borrowed and released with the same
\* effect on its slot as before, and the refcount invariant holds.
C12_BodyOutlivesSets ==
    (Running /\ nsets = 0 /\ NHandles > 0) =>
        /\ \A h \in BagToSet(handles) :
              /\ h.index \in Indices(slots)
              /\ Slot(h.index) = Used(h.val, LiveCount(h.index))
              /\ LET m == make_entry(slots, h.index)
                 IN  m.some /\ m.slots[h.index + 1]
                                 = Used(h.val, LiveCount(h.index) + 1)
              /\ borrow(0, slots, h.index).err = "none"
              /\ borrow_mut(0, slots, h.index).err = "none"
              /\ drop_entry(slots, first_free, h.index).slots[h.index + 1]
                    = IF LiveCount(h.index) = 1 THEN Empty
                      ELSE Used(h.val, LiveCount(h.index) - 1)
        /\ \A i \in Indices(slots) : LiveCount(i) = 0 => ~Slot(i).used

\* C12 witness: with no WeakSet left, a handle was cloned and one of the pair
\* released, beside a handle of another slot
C12_Witness ==
    /\ Running /\ nsets = 0
    /\ cr.phase = "one"
    /\ \E h \in BagToSet(handles) : h.index # cr.index

\* C13 (as claimed): while an RcSet is held, the table has an entry for an
\* address exactly when an Item or a yielded Rc of that value is unreleased.
C13_EntryIffStrong ==
    (RcRunning /\ rc_nsets >= 1) =>
        \A a \in Addrs : (a \in map) <=> (BagIn(a, items) \/ BagIn(a, rcs))

\* C14 (as claimed): a value's destructor, run because a release drained its
\* slot, can release a handle of the same collection; no run is aborted there.
C14_DestructorReenters == panicked.op # "drop_nested"

\* C15 (as claimed): when the release of the last Item destroys a value, the
\* table holds no entry for the value's address at that moment.
C15_UntrackThenRelease == rc_destroy.done => ~rc_destroy.tracked

\* C16 (as claimed): releasing an Item while an Iter is live is not fatal.
C16_ReleaseDuringIter ==
    ~(rc_panicked.op = "drop" /\ rc_panicked.reason = "BorrowMutError")

\* C20: a step that clones an Item leaves the table as it is and raises the
\* strong count of the value by one, leaving every other count alone; no step
\* removes the entry of a value that still has an Item.
C20_ItemCloneFrame ==
    [][/\ \A a \in Addrs :
             (RcRunning' /\ rc_next' = rc_next /\ items' = items (+) One(a)) =>
                 /\ map' = map
                 /\ heap' = [heap EXCEPT ![a].strong = @ + 1]
       /\ \A a \in Addrs :
             (RcRunning' /\ a \in map /\ a \notin map') => ~BagIn(a, items')
      ]_vars

\* C20 witness: an Item and its clone share a tracked value after another
\* value was inserted and released
C20_Witness ==
    /\ RcRunning
    /\ \E a \in Addrs :
          CopiesIn(a, items) = 2 /\ heap[a].strong = 2 /\ map = {a}
    /\ rc_next = 3

\* C17: insert takes the first Empty slot at an index >= first_free, or
\* appends one slot when there is none; it stores Used(value, 1) there, sets
\* first_free to that index + 1 and leaves the other slots alone.  Releasing
\* the last handle of slot i sets first_free to i exactly when i < first_free;
\* any other release leaves it alone.
C17_InsertAndHint ==
    Running =>
        /\ LET r == insert(slots, first_free, next_val)
               i == r.index
           IN  /\ i >= first_free /\ i <= Len(slots)
               /\ i < Len(slots) => ~Slot(i).used
               /\ \A j \in first_free .. (i - 1) :
                     j \in Indices(slots) /\ Slot(j).used
               /\ Len(r.slots) = IF i = Len(slots) THEN Len(slots) + 1
                                 ELSE Len(slots)
               /\ r.slots[i + 1] = Used(next_val, 1)
               /\ r.first_free = i + 1
               /\ \A j \in Indices(slots) \ {i} : r.slots[j + 1] = Slot(j)
        /\ \A h \in BagToSet(handles) :
              LET d == drop_entry(slots, first_free, h.index)
              IN  d.first_free =
                      IF LiveCount(h.index) = 1 /\ h.index < first_free
                      THEN h.index ELSE first_free

\* C17 witness: the hint points at a Used slot, which insert has to pass, and
\* the last handle of a slot below the hint can be released
C17_Witness ==
    /\ Running
    /\ first_free \in Indices(slots) /\ Slot(first_free).used
    /\ \E h \in BagToSet(handles) :
          LiveCount(h.index) = 1 /\ h.index < first_free

\* C18: first_free is at most the length of the array and every slot below
\* it is Used; so insert takes the lowest Empty slot of the whole array and
\* appends, one slot, only when no slot is Empty.
C18_HintInv ==
    Running =>
        /\ first_free <= Len(slots)
        /\ \A j \in Indices(slots) : j < first_free => Slot(j).used
        /\ LET r == insert(slots, first_free, next_val)
               empty == {j \in Indices(slots) : ~Slot(j).used}
           IN  /\ r.index = IF empty = {} THEN Len(slots) ELSE Min(empty)
               /\ Len(r.slots) = IF empty = {} THEN Len(slots) + 1
                                 ELSE Len(slots)

\* C18 witness: the hint points at an emptied slot between two Used slots
C18_Witness ==
    /\ Running
    /\ first_free \in Indices(slots) /\ ~Slot(first_free).used
    /\ \E i, j \in Indices(slots) :
          i < first_free /\ first_free < j /\ Slot(i).used /\ Slot(j).used

\* C19: a pass visits the indices below the length captured by iter() in
\* increasing order: each call of next() moves the position forward or ends
\* the pass, the bound stays as captured and within the array, at most one
\* handle is yielded per index and at most max_idx in all, whatever is
\* released in between; the array does not shrink while it has an owner, and
\* every live handle's index is in it.  Each iter() call captures the length
\* at that time and starts at index 0.
C19_PassBounded ==
    /\ [](Running =>
            /\ \A h \in BagToSet(handles) : h.index \in Indices(slots)
            /\ iter.st # "none" =>
                  /\ iter.idx <= iter.max_idx
                  /\ iter.max_idx <= Len(slots)
                  /\ Len(pass.yielded) <= iter.max_idx
                  /\ \A k \in 1 .. Len(pass.yielded) :
                        /\ pass.yielded[k].index < iter.idx
                        /\ \A l \in 1 .. (k - 1) :
                              pass.yielded[l].index < pass.yielded[k].index)
    /\ [][/\ (iter.st = "active" /\ iter'.st # "none" /\ iter' # iter) =>
                /\ iter'.max_idx = iter.max_idx
                /\ iter'.st = "done" \/ iter'.idx > iter.idx
          /\ (iter.st = "none" /\ iter'.st # "none") =>
                /\ iter' = [st |-> "active", max_idx |-> Len(slots), idx |-> 0]
                /\ pass'.yielded = <<>>
          /\ (Running' /\ nsets' + BagCardinality(handles') > 0) =>
                Len(slots') >= Len(slots)
         ]_vars

\* C19 witness: a finished pass over three slots that yielded two handles,
\* one value having been released before it was visited
C19_Witness ==
    /\ Running /\ iter.st = "done"
    /\ iter.max_idx = 3 /\ iter.idx = 3
    /\ Len(pass.yielded) = 2
    /\ pass.freed # {}

====
